---- MODULE Spec2Model ----
(***************************************************************************)
(* Registration-and-attendance transaction layer of the event management   *)
(* system: register_student_for_event, cancel_registration (registrations  *)
(* .py) and mark_attendance, get_event_attendance (attendance.py), run by  *)
(* several desktop clients against one relational store.  Every SQL        *)
(* statement of a handler is one step; a transaction's writes stay private *)
(* to its client until its commit (read-committed isolation).  The reads   *)
(* get_registered_students and get_event_statistics (reports.py) and the   *)
(* administrative operations create_event (events.py) and add_student,     *)
(* update_student, delete_student (students.py) have specifications of     *)
(* their own.                                                              *)
(***************************************************************************)
EXTENDS Integers, Sequences, FiniteSets, TLC

(* ------------------------------ bounds --------------------------------- *)
MaxDate == 2                             \* current_date ranges over 1..MaxDate
MaxEvents == 2                           \* rows of EVENTS that create_event fills
MaxLen == 3                              \* characters of an exported text value
MaxPasses == 2                           \* times a value goes through the sanitizer

(* ------------------------------ domains -------------------------------- *)
Clients == {"c1", "c2"}                  \* desktop clients sharing the store
StudentIds == {"S001", "S002"}           \* ids with a STUDENTS row
StudentArgs == StudentIds \cup {"S999"}  \* "S999" has no STUDENTS row
EventArgs == {1, 99}                     \* id 99 has no EVENTS row
Pairs == EventArgs \X StudentArgs
\* the (event_id, student_id) arguments of the calls: every student id with
\* the existing event, and the unknown student with the unknown event
ArgPairs == {k \in Pairs : k[1] = 1 \/ k[2] = "S999"}
Roles == {"admin", "volunteer", "unauthorized_role"}
StatusArgs == {"Y", "N"}
\* a cell of an exported row: its Python type and its text; no cell yet
None == [type |-> "NoneType", chars |-> <<>>]
NoCell == [value |-> None, previous |-> None, sanitized |-> None,
           passes |-> 0]
NoStats == [registered |-> 0, attended |-> 0, percentage |-> 0]
NoCall == [op |-> "none", event_id |-> 0, student_id |-> "-",
           attended_status |-> "-"]

VARIABLES
  EVENTS,         \* event_id -> [total_slots, event_date]
  STUDENTS,       \* student_id -> [name]  (a name is its rank in ORDER BY)
  REGISTRATIONS,  \* <<event_id, student_id>> -> number of committed rows
  ATTENDANCE,     \* <<event_id, student_id>> -> committed rows (attended)
  current_date,   \* datetime.date.today()
  pc,             \* client -> statement it executes next
  call,           \* client -> arguments of its current or last call
  result,         \* client -> outcome of its last call
  total_slots,    \* client -> local total_slots of register
  writes,         \* client -> uncommitted writes of its transaction
  event_lock,     \* event_id -> client holding the FOR UPDATE row lock
  stats,          \* client -> registered, attended, percentage of
                  \* get_event_statistics (percentage in hundredths)
  listing,        \* client -> rows its last call returned, if a list query
  cell            \* a value of an exported row, before and after
                  \* sanitize_for_csv

vars == <<EVENTS, STUDENTS, REGISTRATIONS, ATTENDANCE, current_date, pc, call,
          result, total_slots, writes, event_lock, stats, listing, cell>>

tables == <<EVENTS, STUDENTS, REGISTRATIONS, ATTENDANCE, current_date>>

\* what the reads and the export return
outputs == <<listing, cell>>

Key(p) == <<call[p].event_id, call[p].student_id>>

(* ------------------------------ helpers -------------------------------- *)
RECURSIVE SumRegs(_, _)
SumRegs(e, S) ==
  IF S = {} THEN 0
  ELSE LET s == CHOOSE x \in S : TRUE
       IN REGISTRATIONS[<<e, s>>] + SumRegs(e, S \ {s})

\* SELECT COUNT(*) FROM REGISTRATIONS WHERE event_id = :event_id
CountRegistrations(e) == SumRegs(e, StudentArgs)

\* registered_count >= total_slots
EventIsFull_OffByOne(registered_count, slots) == registered_count > slots
EventIsFull_LastSlotRefused(registered_count, slots) ==
  registered_count + 1 >= slots
EventIsFull(registered_count, slots) == registered_count >= slots

\* event_date > current_date
IsFutureEvent_Inclusive(event_date, today) == event_date >= today
IsFutureEvent(event_date, today) == event_date > today

\* the already-registered check: if cursor.fetchone()
AlreadyRegistered_Skipped(rows) == FALSE
AlreadyRegistered(rows) == rows > 0

\* MERGE ... ON (a.event_id = s.event_id AND a.student_id = s.student_id)
MergeMatched_Never(rows) == FALSE
MergeMatched(rows) == Len(rows) > 0

\* WHEN MATCHED THEN UPDATE SET a.attended = :status
UpdateRows_Lost(rows, st) == rows
UpdateRows(rows, st) == [i \in 1..Len(rows) |-> st]

\* current_user_role not in ['admin', 'volunteer']
PermissionDenied_AdminOnly(role) == role # "admin"
PermissionDenied(role) == role \notin {"admin", "volunteer"}

\* SELECT ... FOR UPDATE waits while another transaction holds the row lock
ForUpdateBlocked_NoLock(p, e) == FALSE
ForUpdateBlocked(p, e) == event_lock[e] \notin {"none", p}

\* another transaction has updated or deleted the pair's ATTENDANCE rows
AttendanceRowsLocked(p, k) ==
  \E q \in Clients \ {p} :
    Key(q) = k /\ writes[q] \cap {"del_att", "upd_att"} # {}

\* another transaction has deleted the pair's REGISTRATIONS rows
RegistrationRowsLocked(p, k) ==
  \E q \in Clients \ {p} : Key(q) = k /\ "del_reg" \in writes[q]

\* composite key of ATTENDANCE: a committed row with the same
\* (event_id, student_id) makes an insert fail
AttendanceKeyExists(k) == Len(ATTENDANCE[k]) > 0

\* composite key of ATTENDANCE: another transaction holds an uncommitted
\* insert of the same (event_id, student_id)
AttendanceKeyHeld_NoKey(p, k) == FALSE
AttendanceKeyHeld(p, k) ==
  \E q \in Clients \ {p} : Key(q) = k /\ "ins_att" \in writes[q]

\* a return that leaves the row lock of the event held
Finish_KeepsLock(p, r) ==
  /\ pc' = [pc EXCEPT ![p] = "idle"]
  /\ result' = [result EXCEPT ![p] = r]
  /\ writes' = [writes EXCEPT ![p] = {}]
  /\ total_slots' = [total_slots EXCEPT ![p] = 0]
  /\ UNCHANGED event_lock

\* leaving "with db.get_connection()": uncommitted writes are dropped, the
\* row lock is released, the handler returns r
Finish(p, r) ==
  /\ pc' = [pc EXCEPT ![p] = "idle"]
  /\ result' = [result EXCEPT ![p] = r]
  /\ writes' = [writes EXCEPT ![p] = {}]
  /\ total_slots' = [total_slots EXCEPT ![p] = 0]
  /\ event_lock' = [e \in EventArgs |->
                      IF event_lock[e] = p THEN "none" ELSE event_lock[e]]

Goto(p, l) ==
  /\ pc' = [pc EXCEPT ![p] = l]
  /\ UNCHANGED <<result, total_slots, event_lock>>

\* a commit whose DELETE FROM REGISTRATIONS names the event only
Commit_WholeEvent(p) ==
  LET k == Key(p)
      w == writes[p]
      st == call[p].attended_status
  IN /\ REGISTRATIONS' =
          [j \in Pairs |->
             IF "del_reg" \in w /\ j[1] = k[1] THEN 0
             ELSE IF "ins_reg" \in w /\ j = k THEN REGISTRATIONS[j] + 1
             ELSE REGISTRATIONS[j]]
     /\ ATTENDANCE' =
          [ATTENDANCE EXCEPT ![k] =
             IF "del_att" \in w THEN <<>>
             ELSE IF "upd_att" \in w THEN UpdateRows(@, st)
             ELSE IF "ins_att" \in w THEN Append(@, st) ELSE @]

\* conn.commit(): the transaction's writes become the committed rows
Commit(p) ==
  LET k == Key(p)
      w == writes[p]
      st == call[p].attended_status
  IN /\ REGISTRATIONS' =
          [REGISTRATIONS EXCEPT ![k] =
             IF "del_reg" \in w THEN 0
             ELSE IF "ins_reg" \in w THEN @ + 1 ELSE @]
     /\ ATTENDANCE' =
          [ATTENDANCE EXCEPT ![k] =
             IF "del_att" \in w THEN <<>>
             ELSE IF "upd_att" \in w THEN UpdateRows(@, st)
             ELSE IF "ins_att" \in w THEN Append(@, st) ELSE @]

(* ------------------------------ Init ----------------------------------- *)
\* One event with a single slot, dated day 2, two students, no registration
\* and no attendance yet; the current date is the day before the event, the
\* day of the event or (MaxDate permitting) a later day.
Init ==
  /\ EVENTS = (1 :> [total_slots |-> 1, event_date |-> 2])
  /\ STUDENTS = ("S001" :> [name |-> 2] @@ "S002" :> [name |-> 1])
  /\ REGISTRATIONS = [k \in Pairs |-> 0]
  /\ ATTENDANCE = [k \in Pairs |-> <<>>]
  /\ current_date \in 1..MaxDate
  /\ pc = [p \in Clients |-> "idle"]
  /\ call = [p \in Clients |-> NoCall]
  /\ result = [p \in Clients |-> "none"]
  /\ total_slots = [p \in Clients |-> 0]
  /\ writes = [p \in Clients |-> {}]
  /\ event_lock = [e \in EventArgs |-> "none"]
  /\ stats = [p \in Clients |-> NoStats]
  /\ listing = [p \in Clients |-> <<>>]
  /\ cell = NoCell

(* ------------------- register_student_for_event ------------------------ *)
CallRegister(p, role, e, s) ==
  /\ pc[p] = "idle"
  /\ call' = [call EXCEPT ![p] = [op |-> "register",
                                  event_id |-> e, student_id |-> s,
                                  attended_status |-> "-"]]
  /\ IF PermissionDenied(role)
       THEN Finish(p, "PermissionDenied")
       ELSE /\ pc' = [pc EXCEPT ![p] = "r_lock"]
            /\ result' = [result EXCEPT ![p] = "none"]
            /\ UNCHANGED <<writes, total_slots, event_lock>>
  /\ UNCHANGED <<tables, stats, outputs>>

RegLock(p) ==
  /\ pc[p] = "r_lock"
  /\ ~ForUpdateBlocked(p, call[p].event_id)
  /\ IF call[p].event_id \notin DOMAIN EVENTS
       THEN Finish(p, "EventNotFound")
       ELSE /\ pc' = [pc EXCEPT ![p] = "r_student"]
            /\ total_slots' = [total_slots EXCEPT ![p] =
                                 EVENTS[call[p].event_id].total_slots]
            /\ event_lock' = [event_lock EXCEPT ![call[p].event_id] = p]
            /\ UNCHANGED <<result, writes>>
  /\ UNCHANGED <<tables, call, stats, outputs>>

RegStudent(p) ==
  /\ pc[p] = "r_student"
  /\ IF call[p].student_id \notin DOMAIN STUDENTS
       THEN Finish(p, "StudentNotFound")
       ELSE Goto(p, "r_dup") /\ UNCHANGED writes
  /\ UNCHANGED <<tables, call, stats, outputs>>

RegDup(p) ==
  /\ pc[p] = "r_dup"
  /\ IF AlreadyRegistered(REGISTRATIONS[Key(p)])
       THEN Finish(p, "Info")
       ELSE Goto(p, "r_count") /\ UNCHANGED writes
  /\ UNCHANGED <<tables, call, stats, outputs>>

RegCount(p) ==
  /\ pc[p] = "r_count"
  /\ IF EventIsFull(CountRegistrations(call[p].event_id), total_slots[p])
       THEN Finish(p, "CapacityExceeded")
       ELSE Goto(p, "r_insert") /\ UNCHANGED writes
  /\ UNCHANGED <<tables, call, stats, outputs>>

RegInsert(p) ==
  /\ pc[p] = "r_insert"
  /\ writes' = [writes EXCEPT ![p] = @ \cup {"ins_reg"}]
  /\ Goto(p, "r_commit")
  /\ UNCHANGED <<tables, call, stats, outputs>>

RegCommit(p) ==
  /\ pc[p] = "r_commit"
  /\ Commit(p)
  /\ Finish(p, "Success")
  /\ UNCHANGED <<EVENTS, STUDENTS, current_date, call, stats, outputs>>

(* ------------------------- cancel_registration ------------------------- *)
CallCancel(p, role, e, s) ==
  /\ pc[p] = "idle"
  /\ call' = [call EXCEPT ![p] = [op |-> "cancel",
                                  event_id |-> e, student_id |-> s,
                                  attended_status |-> "-"]]
  /\ IF PermissionDenied(role)
       THEN Finish(p, "PermissionDenied")
       ELSE /\ pc' = [pc EXCEPT ![p] = "c_delatt"]
            /\ result' = [result EXCEPT ![p] = "none"]
            /\ UNCHANGED <<writes, total_slots, event_lock>>
  /\ UNCHANGED <<tables, stats, outputs>>

CancelDeleteAttendance_Skipped(p) ==
  /\ pc[p] = "c_delatt"
  /\ Goto(p, "c_delreg")
  /\ UNCHANGED <<tables, call, writes, stats, outputs>>

CancelDeleteAttendance(p) ==
  /\ pc[p] = "c_delatt"
  /\ ~AttendanceRowsLocked(p, Key(p))
  /\ writes' = [writes EXCEPT ![p] =
                  IF Len(ATTENDANCE[Key(p)]) > 0 THEN @ \cup {"del_att"} ELSE @]
  /\ Goto(p, "c_delreg")
  /\ UNCHANGED <<tables, call, stats, outputs>>

\* a cancel that leaves the REGISTRATIONS row in place
CancelDeleteRegistration_Skipped(p) ==
  /\ pc[p] = "c_delreg"
  /\ Goto(p, "c_commit")
  /\ UNCHANGED <<tables, call, writes, stats, outputs>>

CancelDeleteRegistration(p) ==
  /\ pc[p] = "c_delreg"
  /\ ~RegistrationRowsLocked(p, Key(p))
  /\ writes' = [writes EXCEPT ![p] =
                  IF REGISTRATIONS[Key(p)] > 0 THEN @ \cup {"del_reg"} ELSE @]
  /\ Goto(p, "c_commit")
  /\ UNCHANGED <<tables, call, stats, outputs>>

\* a cancel that deleted no row is reported as a failure
CancelCommit_RowcountChecked(p) ==
  /\ pc[p] = "c_commit"
  /\ Commit(p)
  /\ Finish(p, IF writes[p] = {} THEN "StudentNotFound" ELSE "Success")
  /\ UNCHANGED <<EVENTS, STUDENTS, current_date, call, stats, outputs>>

CancelCommit(p) ==
  /\ pc[p] = "c_commit"
  /\ Commit(p)
  /\ Finish(p, "Success")
  /\ UNCHANGED <<EVENTS, STUDENTS, current_date, call, stats, outputs>>

(* --------------------------- mark_attendance --------------------------- *)
CallMark(p, e, s, st) ==
  /\ pc[p] = "idle"
  /\ call' = [call EXCEPT ![p] = [op |-> "mark",
                                  event_id |-> e, student_id |-> s,
                                  attended_status |-> st]]
  /\ pc' = [pc EXCEPT ![p] = "m_event"]
  /\ result' = [result EXCEPT ![p] = "none"]
  /\ UNCHANGED <<tables, writes, total_slots, event_lock, stats, outputs>>

MarkEvent(p) ==
  /\ pc[p] = "m_event"
  /\ IF call[p].event_id \notin DOMAIN EVENTS
       THEN Finish(p, "EventNotFound")
       ELSE IF IsFutureEvent(EVENTS[call[p].event_id].event_date, current_date)
         THEN Finish(p, "TemporalConstraintViolation")
         ELSE Goto(p, "m_reg") /\ UNCHANGED writes
  /\ UNCHANGED <<tables, call, stats, outputs>>

MarkRegistration_ChecksAttendance(p) ==
  /\ pc[p] = "m_reg"
  /\ IF REGISTRATIONS[Key(p)] = 0 /\ ATTENDANCE[Key(p)] = <<>>
       THEN Finish(p, "PrerequisiteViolation")
       ELSE Goto(p, "m_merge") /\ UNCHANGED writes
  /\ UNCHANGED <<tables, call, stats, outputs>>

MarkRegistration(p) ==
  /\ pc[p] = "m_reg"
  /\ IF REGISTRATIONS[Key(p)] = 0
       THEN Finish(p, "PrerequisiteViolation")
       ELSE Goto(p, "m_merge") /\ UNCHANGED writes
  /\ UNCHANGED <<tables, call, stats, outputs>>

\* The MERGE of a transaction that finds no row of the pair inserts one; the
\* insert fails when the key is committed already and waits when another
\* transaction holds it uncommitted.
MarkMerge(p) ==
  /\ pc[p] = "m_merge"
  /\ ~AttendanceRowsLocked(p, Key(p))
  /\ IF MergeMatched(ATTENDANCE[Key(p)])
       THEN /\ writes' = [writes EXCEPT ![p] = @ \cup {"upd_att"}]
            /\ Goto(p, "m_commit")
       ELSE IF AttendanceKeyExists(Key(p))
         THEN Finish(p, "Unexpected")
         ELSE IF AttendanceKeyHeld(p, Key(p))
           THEN Goto(p, "m_merge_wait") /\ UNCHANGED writes
           ELSE /\ writes' = [writes EXCEPT ![p] = @ \cup {"ins_att"}]
                /\ Goto(p, "m_commit")
  /\ UNCHANGED <<tables, call, stats, outputs>>

\* the MERGE's insert waited for the holder of the key: it fails with a
\* unique-constraint error when the holder committed its row
MarkMergeResume(p) ==
  /\ pc[p] = "m_merge_wait"
  /\ ~AttendanceKeyHeld(p, Key(p))
  /\ IF AttendanceKeyExists(Key(p))
       THEN Finish(p, "Unexpected")
       ELSE /\ writes' = [writes EXCEPT ![p] = @ \cup {"ins_att"}]
            /\ Goto(p, "m_commit")
  /\ UNCHANGED <<tables, call, stats, outputs>>

MarkCommit(p) ==
  /\ pc[p] = "m_commit"
  /\ Commit(p)
  /\ Finish(p, "Success")
  /\ UNCHANGED <<EVENTS, STUDENTS, current_date, call, stats, outputs>>

(* ------------------------- get_event_attendance ------------------------ *)
\* ORDER BY s.name
RECURSIVE OrderByName_Descending(_)
OrderByName_Descending(S) ==
  IF S = {} THEN <<>>
  ELSE LET s == CHOOSE x \in S :
                  \A y \in S : STUDENTS[x].name >= STUDENTS[y].name
       IN <<s>> \o OrderByName_Descending(S \ {s})

RECURSIVE OrderByName(_)
OrderByName(S) ==
  IF S = {} THEN <<>>
  ELSE LET s == CHOOSE x \in S :
                  \A y \in S : STUDENTS[x].name <= STUDENTS[y].name
       IN <<s>> \o OrderByName(S \ {s})

\* the joined rows of one student with JOIN ATTENDANCE in place of LEFT JOIN
JoinedRows_InnerJoin(e, s) ==
  LET att == ATTENDANCE[<<e, s>>]
      n == REGISTRATIONS[<<e, s>>] * Len(att)
  IN [i \in 1..n |-> <<s, STUDENTS[s].name, att[((i - 1) % Len(att)) + 1]>>]

\* the joined rows of one student: one per pair of a REGISTRATIONS row and
\* an ATTENDANCE row, NVL(a.attended, 'N') when the LEFT JOIN finds none
JoinedRows(e, s) ==
  LET att == ATTENDANCE[<<e, s>>]
      shown == IF att = <<>> THEN <<"N">> ELSE att
      n == REGISTRATIONS[<<e, s>>] * Len(shown)
  IN [i \in 1..n |->
        <<s, STUDENTS[s].name, shown[((i - 1) % Len(shown)) + 1]>>]

RECURSIVE ConcatRows(_, _)
ConcatRows(e, order) ==
  IF order = <<>> THEN <<>>
  ELSE JoinedRows(e, Head(order)) \o ConcatRows(e, Tail(order))

get_event_attendance(e) ==
  ConcatRows(e, OrderByName({s \in DOMAIN STUDENTS :
                              REGISTRATIONS[<<e, s>>] > 0}))

\* the statuses get_event_attendance(e) reports for student s
ListedStatuses(e, s) ==
  LET rows == get_event_attendance(e)
  IN [i \in {j \in 1..Len(rows) : rows[j][1] = s} |-> rows[i][3]]

(* --------------------------- specifications ---------------------------- *)
Step(p) ==
  \/ RegLock(p) \/ RegStudent(p) \/ RegDup(p) \/ RegCount(p)
  \/ RegInsert(p) \/ RegCommit(p)
  \/ CancelDeleteAttendance(p) \/ CancelDeleteRegistration(p)
  \/ CancelCommit(p)
  \/ MarkEvent(p) \/ MarkRegistration(p) \/ MarkMerge(p) \/ MarkCommit(p)

AnyCall(p) ==
  \/ \E role \in Roles, k \in ArgPairs : CallRegister(p, role, k[1], k[2])
  \/ \E role \in Roles, k \in ArgPairs : CallCancel(p, role, k[1], k[2])
  \/ \E k \in ArgPairs, st \in StatusArgs : CallMark(p, k[1], k[2], st)

\* clients run their calls concurrently
Next == \E p \in Clients : AnyCall(p) \/ Step(p) \/ MarkMergeResume(p)

Spec == Init /\ [][Next]_vars

\* calls do not overlap: a call starts when no other call is running
AllIdle == \A q \in Clients : pc[q] = "idle"

NextSeq == \E p \in Clients : (AllIdle /\ AnyCall(p)) \/ Step(p)

SpecSeq == Init /\ [][NextSeq]_vars

\* the over-booking scenario: each client registers once, by a privileged
\* role, one student of its own for event 1, which has a single slot
RaceCall(p) ==
  /\ result[p] = "none"
  /\ \E role \in {"admin", "volunteer"}, s \in StudentIds :
       /\ \A q \in Clients \ {p} : call[q].student_id # s
       /\ CallRegister(p, role, 1, s)

NextRace ==
  \E p \in Clients :
    \/ RaceCall(p)
    \/ RegLock(p) \/ RegStudent(p) \/ RegDup(p) \/ RegCount(p)
    \/ RegInsert(p) \/ RegCommit(p)

SpecRace == Init /\ [][NextRace]_vars

(* ----------------------- infrastructure failures ----------------------- *)
\* the scope of the connection is left with the writes made so far kept
Fail_CommitsOnExit(p) ==
  /\ pc[p] # "idle"
  /\ Commit(p)
  /\ Finish(p, "Unexpected")
  /\ UNCHANGED <<EVENTS, STUDENTS, current_date, call, stats, outputs>>

\* the statement client p executes next (taking the connection, a SELECT,
\* a DELETE, the INSERT, the MERGE or the commit) raises: "except Exception"
\* returns the unexpected-error message, and the scope of the connection is
\* left without commit
Fail(p) ==
  /\ pc[p] # "idle"
  /\ Finish(p, "Unexpected")
  /\ UNCHANGED <<tables, call, stats, outputs>>

\* calls that do not overlap, any statement of which may fail
NextFail == \E p \in Clients : (AllIdle /\ AnyCall(p)) \/ Step(p) \/ Fail(p)

SpecFail == Init /\ [][NextFail]_vars

\* the same clients and calls on an event with two slots, so that both
\* students can hold a registration at once
InitTwoSlots ==
  /\ EVENTS = (1 :> [total_slots |-> 2, event_date |-> 2])
  /\ STUDENTS = ("S001" :> [name |-> 2] @@ "S002" :> [name |-> 1])
  /\ REGISTRATIONS = [k \in Pairs |-> 0]
  /\ ATTENDANCE = [k \in Pairs |-> <<>>]
  /\ current_date \in 1..MaxDate
  /\ pc = [p \in Clients |-> "idle"]
  /\ call = [p \in Clients |-> NoCall]
  /\ result = [p \in Clients |-> "none"]
  /\ total_slots = [p \in Clients |-> 0]
  /\ writes = [p \in Clients |-> {}]
  /\ event_lock = [e \in EventArgs |-> "none"]
  /\ stats = [p \in Clients |-> NoStats]
  /\ listing = [p \in Clients |-> <<>>]
  /\ cell = NoCell

SpecTwoSlots == InitTwoSlots /\ [][Next]_vars

(* ------------------------ get_event_statistics ------------------------- *)
RECURSIVE SumAttended(_, _)
SumAttended(e, S) ==
  IF S = {} THEN 0
  ELSE LET s == CHOOSE x \in S : TRUE
           att == ATTENDANCE[<<e, s>>]
       IN Cardinality({i \in DOMAIN att : att[i] = "Y"})
            + SumAttended(e, S \ {s})

\* SELECT COUNT(*) FROM ATTENDANCE WHERE event_id = :event_id
\*   AND attended = 'Y'
CountAttended_AllRows(e) ==
  LET Rows(k) == Len(ATTENDANCE[k])
  IN Rows(<<e, "S001">>) + Rows(<<e, "S002">>) + Rows(<<e, "S999">>)
CountAttended(e) == SumAttended(e, StudentArgs)

\* round(n / d * 100, 2), in hundredths of a percent: the nearest hundredth,
\* of two equally near ones the even one
Round2_Truncated(n, d) == (n * 10000) \div d
Round2(n, d) ==
  LET q == (n * 10000) \div d
      r == (n * 10000) % d
  IN IF 2 * r < d THEN q
     ELSE IF 2 * r > d THEN q + 1
     ELSE IF q % 2 = 0 THEN q ELSE q + 1

\* (total_attended / total_registered) * 100 if total_registered > 0 else 0
Percentage_ZeroIsFull(total_attended, total_registered) ==
  IF total_registered > 0 THEN Round2(total_attended, total_registered)
  ELSE 10000
Percentage(total_attended, total_registered) ==
  IF total_registered > 0 THEN Round2(total_attended, total_registered)
  ELSE 0

CallStatistics(p, e) ==
  /\ pc[p] = "idle"
  /\ call' = [call EXCEPT ![p] = [op |-> "statistics", event_id |-> e,
                                  student_id |-> "-",
                                  attended_status |-> "-"]]
  /\ pc' = [pc EXCEPT ![p] = "s_event"]
  /\ result' = [result EXCEPT ![p] = "none"]
  /\ stats' = [stats EXCEPT ![p] = NoStats]
  /\ listing' = [listing EXCEPT ![p] = <<>>]
  /\ UNCHANGED <<tables, writes, total_slots, event_lock, cell>>

\* SELECT event_name FROM EVENTS: None is returned when there is no row
StatEvent(p) ==
  /\ pc[p] = "s_event"
  /\ IF call[p].event_id \notin DOMAIN EVENTS
       THEN Finish(p, "EventNotFound")
       ELSE Goto(p, "s_registered") /\ UNCHANGED writes
  /\ UNCHANGED <<tables, call, stats, outputs>>

StatRegistered(p) ==
  /\ pc[p] = "s_registered"
  /\ stats' = [stats EXCEPT ![p].registered =
                 CountRegistrations(call[p].event_id)]
  /\ Goto(p, "s_attended")
  /\ UNCHANGED <<tables, call, writes, outputs>>

\* the count of attended students, the percentage and the returned dict
StatAttended(p) ==
  /\ pc[p] = "s_attended"
  /\ LET total_attended == CountAttended(call[p].event_id)
     IN stats' = [stats EXCEPT
                    ![p].attended = total_attended,
                    ![p].percentage =
                       Percentage(total_attended, stats[p].registered)]
  /\ Finish(p, "Success")
  /\ UNCHANGED <<tables, call, outputs>>

\* statistics of an event with three slots and three students, in every
\* state of its Registration and Attendance rows: at most one row of either
\* table per pair, an Attendance row also without Registration row
InitStatistics ==
  /\ EVENTS = (1 :> [total_slots |-> 3, event_date |-> 2])
  /\ STUDENTS = ("S001" :> [name |-> 2] @@ "S002" :> [name |-> 1]
                   @@ "S999" :> [name |-> 3])
  /\ REGISTRATIONS \in [Pairs -> {0, 1}]
  /\ ATTENDANCE \in [Pairs -> {<<>>, <<"Y">>, <<"N">>}]
  /\ \A k \in Pairs :
       k[1] \notin DOMAIN EVENTS
         => (REGISTRATIONS[k] = 0 /\ ATTENDANCE[k] = <<>>)
  /\ current_date \in 1..MaxDate
  /\ pc = [p \in Clients |-> "idle"]
  /\ call = [p \in Clients |-> NoCall]
  /\ result = [p \in Clients |-> "none"]
  /\ total_slots = [p \in Clients |-> 0]
  /\ writes = [p \in Clients |-> {}]
  /\ event_lock = [e \in EventArgs |-> "none"]
  /\ stats = [p \in Clients |-> NoStats]
  /\ listing = [p \in Clients |-> <<>>]
  /\ cell = NoCell

NextStatistics ==
  \E p \in Clients :
    \/ \E e \in EventArgs : AllIdle /\ CallStatistics(p, e)
    \/ StatEvent(p) \/ StatRegistered(p) \/ StatAttended(p)

SpecStatistics == InitStatistics /\ [][NextStatistics]_vars

(* ------------------- mark_attendance, any status ----------------------- *)
\* mark_attendance takes attended_status as it is given: a caller other
\* than the two buttons of the UI can pass any string
OtherStatusArgs == {"X"}

\* calls that do not overlap, mark_attendance also with another status
NextAnyStatus ==
  \E p \in Clients :
    \/ AllIdle /\ AnyCall(p)
    \/ AllIdle /\ \E k \in ArgPairs, st \in OtherStatusArgs :
                    CallMark(p, k[1], k[2], st)
    \/ Step(p)

SpecAnyStatus == Init /\ [][NextAnyStatus]_vars

(* ----------------- create_event and student management ----------------- *)
\* current_user_role != 'admin'
AdminRequired_VolunteerToo(role) == role \notin {"admin", "volunteer"}
AdminRequired(role) == role # "admin"

\* values passed as total_slots: ints, strings (the text of the UI's entry
\* field), floats (val in tenths) and None
SlotArgs ==
  [type : {"int"}, text : {""}, val : {-1, 0, 1, 2}]
    \cup [type : {"str"}, text : {"", "2", "0", "-1", "abc", "2.5"}, val : {0}]
    \cup [type : {"float"}, text : {""}, val : {5, 25}]
    \cup [type : {"NoneType"}, text : {""}, val : {0}]

\* the truth value all([...]) takes of a field
Truthy(x) ==
  CASE x.type = "int" -> x.val # 0
    [] x.type = "float" -> x.val # 0
    [] x.type = "str" -> x.text # ""
    [] OTHER -> FALSE

\* the decimal integer literals among the strings of SlotArgs
DecimalText == ("2" :> 2) @@ ("0" :> 0) @@ ("-1" :> -1)

\* int(total_slots): an int is itself, a float is truncated toward zero, a
\* string is parsed as a decimal integer or raises ValueError, None raises
\* TypeError
IntOf(x) ==
  CASE x.type = "int" -> [ok |-> TRUE, val |-> x.val]
    [] x.type = "float" ->
         [ok |-> TRUE,
          val |-> IF x.val >= 0 THEN x.val \div 10 ELSE -((-x.val) \div 10)]
    [] x.type = "str" ->
         IF x.text \in DOMAIN DecimalText
           THEN [ok |-> TRUE, val |-> DecimalText[x.text]]
           ELSE [ok |-> FALSE, val |-> 0]
    [] OTHER -> [ok |-> FALSE, val |-> 0]

\* slots <= 0
SlotsNotPositive_ZeroAllowed(slots) == slots < 0
SlotsNotPositive(slots) == slots <= 0

\* the other fields of create_event: all valid, one of them empty, a date
\* not in YYYY-MM-DD, a time in neither format
EventFieldArgs == {"ok", "blank", "bad_date", "bad_time"}

\* the checks of create_event, in the order of the code
CreateEventOutcome(role, fields, slots_arg) ==
  IF AdminRequired(role) THEN "AdminRequired"
  ELSE IF fields = "blank" \/ ~Truthy(slots_arg) THEN "FieldsRequired"
  ELSE IF ~IntOf(slots_arg).ok THEN "SlotsNotANumber"
  ELSE IF SlotsNotPositive(IntOf(slots_arg).val) THEN "SlotsNotPositive"
  ELSE IF fields = "bad_date" THEN "InvalidDate"
  ELSE IF fields = "bad_time" THEN "InvalidTime"
  ELSE "Success"

\* the identifier the store gives a new EVENTS row
NextEventId ==
  (CHOOSE e \in DOMAIN EVENTS : \A d \in DOMAIN EVENTS : d <= e) + 1

\* the arguments of a call of an administrative operation
AdminCalled(p, op, role, s, slots_arg) ==
  call' = [call EXCEPT ![p] = [op |-> op, event_id |-> 0, student_id |-> s,
                               attended_status |-> "-", role |-> role,
                               total_slots |-> slots_arg]]

NoSlots == [type |-> "NoneType", text |-> "", val |-> 0]

create_event(p, role, fields, event_date, slots_arg) ==
  /\ pc[p] = "idle"
  /\ CreateEventOutcome(role, fields, slots_arg) = "Success"
       => Cardinality(DOMAIN EVENTS) < MaxEvents
  /\ AdminCalled(p, "create_event", role, "-", slots_arg)
  /\ LET outcome == CreateEventOutcome(role, fields, slots_arg)
     IN /\ EVENTS' =
             IF outcome = "Success"
               THEN EVENTS @@ (NextEventId :>
                      [total_slots |-> IntOf(slots_arg).val,
                       event_date |-> event_date])
               ELSE EVENTS
        /\ Finish(p, outcome)
  /\ UNCHANGED <<STUDENTS, REGISTRATIONS, ATTENDANCE, current_date, stats, outputs>>

\* the fields of add_student and update_student other than student_id and
\* name: all valid, name or email empty, an email of a wrong format, a year
\* that is no positive number
StudentFieldArgs == {"ok", "blank", "bad_email", "bad_year"}
NameArgs == {1, 2}

\* the checks add_student and update_student make before their statement
StudentFieldsOutcome(role, fields) ==
  IF AdminRequired(role) THEN "AdminRequired"
  ELSE IF fields = "blank" THEN "FieldsRequired"
  ELSE IF fields = "bad_email" THEN "InvalidEmail"
  ELSE IF fields = "bad_year" THEN "InvalidYear"
  ELSE "Success"

\* INSERT INTO STUDENTS: the primary key refuses a second row of the id
add_student(p, role, student_id, name, fields) ==
  /\ pc[p] = "idle"
  /\ AdminCalled(p, "add_student", role, student_id, NoSlots)
  /\ LET checked == StudentFieldsOutcome(role, fields)
         outcome == IF checked = "Success" /\ student_id \in DOMAIN STUDENTS
                      THEN "StudentExists" ELSE checked
     IN /\ STUDENTS' = IF outcome = "Success"
                         THEN STUDENTS @@ (student_id :> [name |-> name])
                         ELSE STUDENTS
        /\ Finish(p, outcome)
  /\ UNCHANGED <<EVENTS, REGISTRATIONS, ATTENDANCE, current_date, stats, outputs>>

\* UPDATE STUDENTS ... WHERE student_id = :student_id; rowcount 0 is
\* reported as student not found
update_student(p, role, student_id, name, fields) ==
  /\ pc[p] = "idle"
  /\ AdminCalled(p, "update_student", role, student_id, NoSlots)
  /\ LET checked == StudentFieldsOutcome(role, fields)
         outcome == IF checked = "Success" /\ student_id \notin DOMAIN STUDENTS
                      THEN "StudentNotFound" ELSE checked
     IN /\ STUDENTS' = IF outcome = "Success"
                         THEN [STUDENTS EXCEPT ![student_id].name = name]
                         ELSE STUDENTS
        /\ Finish(p, outcome)
  /\ UNCHANGED <<EVENTS, REGISTRATIONS, ATTENDANCE, current_date, stats, outputs>>

\* DELETE FROM STUDENTS WHERE student_id = :student_id
delete_student(p, role, student_id) ==
  /\ pc[p] = "idle"
  /\ AdminCalled(p, "delete_student", role, student_id, NoSlots)
  /\ LET outcome == IF AdminRequired(role) THEN "AdminRequired"
                    ELSE IF student_id \notin DOMAIN STUDENTS
                      THEN "StudentNotFound" ELSE "Success"
     IN /\ STUDENTS' = IF outcome = "Success"
                         THEN [s \in DOMAIN STUDENTS \ {student_id} |->
                                 STUDENTS[s]]
                         ELSE STUDENTS
        /\ Finish(p, outcome)
  /\ UNCHANGED <<EVENTS, REGISTRATIONS, ATTENDANCE, current_date, stats, outputs>>

\* the arguments of create_event: every total_slots with the other fields
\* valid, and every fault of the other fields with total_slots 2
EventArgCombos ==
  {c \in EventFieldArgs \X SlotArgs :
     c[1] = "ok" \/ c[2] = [type |-> "int", text |-> "", val |-> 2]}

\* the arguments of add_student and update_student: every id and name with
\* the other fields valid, and every fault of the other fields
StudentArgCombos ==
  {c \in StudentArgs \X NameArgs \X StudentFieldArgs :
     c[3] = "ok" \/ (c[1] = "S001" /\ c[2] = 1)}

\* a call of one of the four administrative operations by a user of role
AdminCall(p, role) ==
  \/ \E c \in EventArgCombos :
       create_event(p, role, c[1], current_date, c[2])
  \/ \E c \in StudentArgCombos : add_student(p, role, c[1], c[2], c[3])
  \/ \E c \in StudentArgCombos : update_student(p, role, c[1], c[2], c[3])
  \/ \E s \in StudentArgs : delete_student(p, role, s)

\* one client manages events (dated today) and students; nobody is
\* registered
AdminClients == {"c1"}

NextAdmin == \E p \in AdminClients, role \in Roles : AdminCall(p, role)

SpecAdmin == Init /\ [][NextAdmin]_vars

(* ----------------------- get_registered_students ----------------------- *)
\* the rows of STUDENTS s JOIN REGISTRATIONS r for one student of the event
RegisteredRows(e, s) ==
  [i \in 1..REGISTRATIONS[<<e, s>>] |-> <<s, STUDENTS[s].name>>]

RECURSIVE ConcatRegistered(_, _)
ConcatRegistered(e, order) ==
  IF order = <<>> THEN <<>>
  ELSE RegisteredRows(e, Head(order)) \o ConcatRegistered(e, Tail(order))

\* the rows (student_id, name) the query returns, ORDER BY s.name
get_registered_students(e) ==
  ConcatRegistered(e, OrderByName({s \in DOMAIN STUDENTS :
                                     REGISTRATIONS[<<e, s>>] > 0}))

(* ------------------------- export sanitizer ---------------------------- *)
\* characters of the exported text values: the four that start a formula,
\* the quote the sanitizer prepends, and a letter
Alphabet == {"=", "+", "-", "@", "'", "a"}
Texts == UNION {[1..n -> Alphabet] : n \in 0..MaxLen}

\* the cells of a row of export_attendance_to_csv: text (student_id, name,
\* email, department, attended), the integer year, and NULL
CellValues ==
  {[type |-> "str", chars |-> c] : c \in Texts}
    \cup {[type |-> "int", chars |-> <<"-", "1">>],
          [type |-> "int", chars |-> <<"2">>], None}

\* value.startswith(('=', '+', '-', '@'))
StartsWithFormula_NoAt(chars) ==
  Len(chars) > 0 /\ chars[1] \in {"=", "+", "-"}
StartsWithFormula(chars) ==
  Len(chars) > 0 /\ chars[1] \in {"=", "+", "-", "@"}

\* if isinstance(value, str) and value.startswith(...): return "'" + value
sanitize_for_csv(value) ==
  IF value.type = "str" /\ StartsWithFormula(value.chars)
  THEN [type |-> "str", chars |-> <<"'">> \o value.chars]
  ELSE value

\* any value a cell of the export can hold, not yet sanitized
InitSanitize ==
  /\ EVENTS = (1 :> [total_slots |-> 1, event_date |-> 2])
  /\ STUDENTS = ("S001" :> [name |-> 2] @@ "S002" :> [name |-> 1])
  /\ REGISTRATIONS = [k \in Pairs |-> 0]
  /\ ATTENDANCE = [k \in Pairs |-> <<>>]
  /\ current_date = 1
  /\ pc = [p \in Clients |-> "idle"]
  /\ call = [p \in Clients |-> NoCall]
  /\ result = [p \in Clients |-> "none"]
  /\ total_slots = [p \in Clients |-> 0]
  /\ writes = [p \in Clients |-> {}]
  /\ event_lock = [e \in EventArgs |-> "none"]
  /\ stats = [p \in Clients |-> NoStats]
  /\ listing = [p \in Clients |-> <<>>]
  /\ \E v \in CellValues :
       cell = [value |-> v, previous |-> v, sanitized |-> v, passes |-> 0]

\* sanitize_for_csv(cell), applied to the outcome of the pass before
SanitizeCell ==
  /\ cell.passes < MaxPasses
  /\ cell' = [value |-> cell.value,
              previous |-> cell.sanitized,
              sanitized |-> sanitize_for_csv(cell.sanitized),
              passes |-> cell.passes + 1]
  /\ UNCHANGED <<tables, pc, call, result, total_slots, writes, event_lock,
                 stats, listing>>

NextSanitize == SanitizeCell
SpecSanitize == InitSanitize /\ [][NextSanitize]_vars

(* ------------------------------- reads --------------------------------- *)
\* a list query is one SELECT on the committed rows; its rows are returned
ListReturned(p, op, e, returned) ==
  /\ pc[p] = "idle"
  /\ call' = [call EXCEPT ![p] = [op |-> op, event_id |-> e,
                                  student_id |-> "-",
                                  attended_status |-> "-"]]
  /\ listing' = [listing EXCEPT ![p] = returned]
  /\ stats' = [stats EXCEPT ![p] = NoStats]
  /\ Finish(p, "Success")

\* get_registered_students(event_id) of registrations.py
ListRegistered(p, e) ==
  /\ ListReturned(p, "list_registered", e, get_registered_students(e))
  /\ UNCHANGED <<tables, cell>>

\* a listing that stores the status 'N' it shows for a missing row
ListForEvent_StoresDefault(p, e) ==
  /\ ListReturned(p, "list_for_event", e, get_event_attendance(e))
  /\ ATTENDANCE' = [k \in Pairs |->
                      IF k[1] = e /\ REGISTRATIONS[k] > 0
                           /\ ATTENDANCE[k] = <<>>
                      THEN <<"N">> ELSE ATTENDANCE[k]]
  /\ UNCHANGED <<EVENTS, STUDENTS, REGISTRATIONS, current_date, cell>>

\* get_event_attendance(event_id) of attendance.py
ListForEvent(p, e) ==
  /\ ListReturned(p, "list_for_event", e, get_event_attendance(e))
  /\ UNCHANGED <<tables, cell>>

\* one client registers, cancels and marks while the other runs the reads
Writers == {"c1"}
Readers == {"c2"}

AnyRead(p) ==
  \/ \E e \in EventArgs : ListRegistered(p, e)
  \/ \E e \in EventArgs : ListForEvent(p, e)
  \/ \E e \in EventArgs : CallStatistics(p, e)

NextReads ==
  \/ \E p \in Writers : AnyCall(p) \/ Step(p)
  \/ \E p \in Readers :
       AnyRead(p) \/ StatEvent(p) \/ StatRegistered(p) \/ StatAttended(p)

SpecReads == Init /\ [][NextReads]_vars

(* ----------------------------- scheduling ------------------------------ *)
\* the calls of a privileged user on the day of the event: register() and
\* cancel() with every argument pair, mark() with the status "Y"
LiveCall(p) ==
  \/ \E k \in ArgPairs : CallRegister(p, "admin", k[1], k[2])
  \/ \E k \in ArgPairs : CallCancel(p, "volunteer", k[1], k[2])
  \/ \E k \in ArgPairs : CallMark(p, k[1], k[2], "Y")

InitLive == Init /\ current_date = 2

\* every client keeps executing its call: a statement that can run is run,
\* and a statement that waits for a row lock or a key gets it when it is
\* released again and again (the store queues the waiters); any statement
\* may fail, none has to
NextLive ==
  \E p \in Clients : LiveCall(p) \/ Step(p) \/ MarkMergeResume(p) \/ Fail(p)

SpecLive ==
  /\ InitLive
  /\ [][NextLive]_vars
  /\ \A p \in Clients : SF_vars(Step(p) \/ MarkMergeResume(p))

(* ------------------------- freeing a slot ------------------------------ *)
\* the calls of the first client: any register() and mark(), and a cancel()
\* by a privileged role of a registered student of event 1 while it is full
FillOrFree(p) ==
  \/ \E role \in Roles, k \in ArgPairs : CallRegister(p, role, k[1], k[2])
  \/ \E k \in ArgPairs, st \in StatusArgs : CallMark(p, k[1], k[2], st)
  \/ /\ CountRegistrations(1) = EVENTS[1].total_slots
     /\ \E role \in {"admin", "volunteer"}, s \in StudentIds :
          REGISTRATIONS[<<1, s>>] > 0 /\ CallCancel(p, role, 1, s)

\* the call that follows such a cancel(): a register() by a privileged role
\* of an existing student who is not registered for event 1
RegisterNext(q) ==
  /\ result[q] = "none"
  /\ \E p \in Writers :
       call[p].op = "cancel" /\ call[p].event_id = 1 /\ result[p] = "Success"
  /\ \E role \in {"admin", "volunteer"}, s \in StudentIds :
       REGISTRATIONS[<<1, s>>] = 0 /\ CallRegister(q, role, 1, s)

\* one call at a time; the scenario ends with the second client's register()
NextRefill ==
  \/ \E p \in Writers :
       \/ /\ AllIdle
          /\ \A q \in Clients \ Writers : result[q] = "none"
          /\ FillOrFree(p)
       \/ Step(p)
  \/ \E q \in Clients \ Writers : (AllIdle /\ RegisterNext(q)) \/ Step(q)

\* an event of one slot or of two
SpecRefill == (Init \/ InitTwoSlots) /\ [][NextRefill]_vars

(* ------------------------------- claims -------------------------------- *)
\* a step in which client p's call of operation op returns
Returns(p, op) == call[p].op = op /\ pc[p] # "idle" /\ pc'[p] = "idle"

\* C1: for every event, in every state reachable by interleaved register()
\* and cancel() calls, the number of Registration rows of the event is at
\* most the event's capacity.
C1_CapacityNeverExceeded ==
  \A e \in DOMAIN EVENTS : CountRegistrations(e) <= EVENTS[e].total_slots

\* the event is full: one register() got the last slot and the other
\* client's register() was refused
C1_Witness ==
  \E p \in Clients : \E q \in Clients \ {p} :
    /\ call[p].op = "register" /\ result[p] = "CapacityExceeded"
    /\ call[q].op = "register" /\ result[q] = "Success"
    /\ call[q].event_id = call[p].event_id
    /\ CountRegistrations(call[p].event_id)
         = EVENTS[call[p].event_id].total_slots

\* C2: every Attendance row of a pair has a Registration row of the same
\* pair, in every state reachable by interleaved register(), cancel() and
\* mark() calls.
C2_AttendanceHasRegistration ==
  \A k \in Pairs : Len(ATTENDANCE[k]) > 0 => REGISTRATIONS[k] > 0

\* C3: there is at most one Registration row per pair, and a register() that
\* returns while the pair is registered returns Info and leaves the
\* Registration rows unchanged, also with concurrent calls for one pair.
C3_RegisterIdempotent ==
  /\ [](\A k \in Pairs : REGISTRATIONS[k] <= 1)
  /\ [][\A p \in Clients :
          (Returns(p, "register") /\ REGISTRATIONS[Key(p)] >= 1)
            => (result'[p] = "Info" /\ REGISTRATIONS' = REGISTRATIONS)]_vars

\* two clients registered the same pair: one got Success, the other Info
C3_Witness ==
  \E p \in Clients : \E q \in Clients \ {p} :
    /\ call[p].op = "register" /\ call[q].op = "register"
    /\ Key(p) = Key(q)
    /\ result[p] = "Success" /\ result[q] = "Info"
    /\ pc[p] = "idle" /\ pc[q] = "idle"
    /\ REGISTRATIONS[Key(p)] = 1

\* both calls of the over-booking scenario have returned
RaceOver == \A p \in Clients : pc[p] = "idle" /\ result[p] # "none"

\* C4: with capacity 1 and no registrations, two concurrent register()
\* calls for two distinct existing students end with exactly one Success,
\* one CapacityExceeded and exactly one Registration row.
C4_OneWinsOneRefused ==
  RaceOver =>
    /\ Cardinality({p \in Clients : result[p] = "Success"}) = 1
    /\ Cardinality({p \in Clients : result[p] = "CapacityExceeded"}) = 1
    /\ CountRegistrations(1) = 1

C4_Witness ==
  /\ RaceOver
  /\ \A p \in Clients : call[p].op = "register" /\ call[p].event_id = 1
  /\ EVENTS[1].total_slots = 1

\* C5: there is at most one Attendance row per pair, also after concurrent
\* mark() calls for one pair that both passed their checks before either
\* wrote.
C5_OneAttendanceRowPerPair == \A k \in Pairs : Len(ATTENDANCE[k]) <= 1

\* two mark() calls for one pair overlapped at the MERGE: one committed its
\* row, the other waited for the key and failed
C5_Witness ==
  \E p \in Clients : \E q \in Clients \ {p} :
    /\ call[p].op = "mark" /\ call[q].op = "mark" /\ Key(p) = Key(q)
    /\ result[p] = "Success" /\ result[q] = "Unexpected"
    /\ pc[p] = "idle" /\ pc[q] = "idle"
    /\ Len(ATTENDANCE[Key(p)]) = 1

\* C6: when calls do not overlap, a cancel() that returns Success leaves no
\* Attendance row and no Registration row of its pair, also when an
\* Attendance row existed, and get_event_attendance lists no entry for the
\* student.
C6_CancelRemovesBoth ==
  [][\A p \in Clients :
       Returns(p, "cancel") =>
         /\ result'[p] = "Success"
         /\ REGISTRATIONS'[Key(p)] = 0
         /\ ATTENDANCE'[Key(p)] = <<>>
         /\ DOMAIN ListedStatuses(call[p].event_id, call[p].student_id)' = {}
    ]_vars

\* a mark() of the pair succeeded, and the cancel() that followed it removed
\* the Attendance row and the Registration row
C6_Witness ==
  \E p \in Clients : \E q \in Clients \ {p} :
    /\ call[p].op = "cancel" /\ result[p] = "Success" /\ pc[p] = "idle"
    /\ call[q].op = "mark" /\ result[q] = "Success" /\ pc[q] = "idle"
    /\ Key(p) = Key(q)
    /\ REGISTRATIONS[Key(p)] = 0 /\ ATTENDANCE[Key(p)] = <<>>

\* the pair of client p's call is registered for an existing event whose
\* date is not after the current date
Markable(p) ==
  /\ call[p].event_id \in DOMAIN EVENTS
  /\ EVENTS[call[p].event_id].event_date <= current_date
  /\ REGISTRATIONS[Key(p)] >= 1

\* C7: when calls do not overlap, mark(e, s, "Y") for a registered student
\* of a non-future event returns Success and leaves exactly one Attendance
\* row "Y" for the pair; a second such call changes nothing.
C7_MarkIdempotent ==
  [][\A p \in Clients :
       (Returns(p, "mark") /\ call[p].attended_status = "Y" /\ Markable(p))
         => /\ result'[p] = "Success"
            /\ ATTENDANCE'[Key(p)] = <<"Y">>
            /\ ATTENDANCE[Key(p)] = <<"Y">>
                 => (ATTENDANCE' = ATTENDANCE /\ REGISTRATIONS' = REGISTRATIONS)
    ]_vars

\* both clients called mark(e, s, "Y") for one pair and both got Success
C7_Witness ==
  \E p \in Clients : \E q \in Clients \ {p} :
    /\ call[p] = call[q]
    /\ call[p].op = "mark" /\ call[p].attended_status = "Y"
    /\ result[p] = "Success" /\ result[q] = "Success"
    /\ pc[p] = "idle" /\ pc[q] = "idle"
    /\ ATTENDANCE[Key(p)] = <<"Y">>

\* C8: when calls do not overlap, after a successful mark(e, s, x)
\* get_event_attendance(e) lists s exactly once, with status x, and the pair
\* has one Attendance row: a row that existed is updated, not joined by a
\* second one.
C8_MarkReadsBack ==
  [][\A p \in Clients :
       (Returns(p, "mark") /\ result'[p] = "Success")
         => /\ LET listed == ListedStatuses(call[p].event_id,
                                             call[p].student_id)'
               IN /\ Cardinality(DOMAIN listed) = 1
                  /\ \A i \in DOMAIN listed :
                       listed[i] = call[p].attended_status
            /\ Len(ATTENDANCE'[Key(p)]) = 1
    ]_vars

\* mark "Y" by one client, then mark "N" by the other: the row reads "N"
C8_Witness ==
  \E p \in Clients : \E q \in Clients \ {p} :
    /\ call[p].op = "mark" /\ call[q].op = "mark" /\ Key(p) = Key(q)
    /\ call[p].attended_status = "Y" /\ call[q].attended_status = "N"
    /\ result[p] = "Success" /\ result[q] = "Success"
    /\ pc[p] = "idle" /\ pc[q] = "idle"
    /\ ATTENDANCE[Key(p)] = <<"N">>
    /\ \E i \in DOMAIN get_event_attendance(call[p].event_id) :
         get_event_attendance(call[p].event_id)[i]
           = <<call[p].student_id, STUDENTS[call[p].student_id].name, "N">>

\* C9: a mark() on an existing event whose date is after the current date
\* returns TemporalConstraintViolation, registered or not, and leaves the
\* Attendance rows unchanged; an event dated today is not refused so.
C9_FutureEventRefused ==
  [][\A p \in Clients :
       (Returns(p, "mark") /\ call[p].event_id \in DOMAIN EVENTS)
         => /\ EVENTS[call[p].event_id].event_date > current_date
                 => /\ result'[p] = "TemporalConstraintViolation"
                    /\ ATTENDANCE' = ATTENDANCE
            /\ EVENTS[call[p].event_id].event_date <= current_date
                 => result'[p] # "TemporalConstraintViolation"
    ]_vars

\* a mark() for a registered student of a future event was refused
C9_Witness ==
  \E p \in Clients :
    /\ call[p].op = "mark" /\ pc[p] = "idle"
    /\ result[p] = "TemporalConstraintViolation"
    /\ REGISTRATIONS[Key(p)] = 1
    /\ EVENTS[call[p].event_id].event_date > current_date

\* C10: mark() reaches its registration check only for an existing event
\* whose date is not in the future; when the pair has no Registration row at
\* that check, mark() returns PrerequisiteViolation there, also when a stale
\* Attendance row of the pair exists, and changes no Attendance row; no
\* other mark() returns PrerequisiteViolation.
C10_UnregisteredRefused ==
  /\ [](\A p \in Clients :
          pc[p] = "m_reg" =>
            /\ call[p].event_id \in DOMAIN EVENTS
            /\ EVENTS[call[p].event_id].event_date <= current_date)
  /\ [][\A p \in Clients :
          /\ ( /\ call[p].op = "mark"
               /\ pc[p] = "m_reg" /\ pc'[p] # "m_reg"
               /\ REGISTRATIONS[Key(p)] = 0 )
               => /\ pc'[p] = "idle"
                  /\ result'[p] = "PrerequisiteViolation"
                  /\ ATTENDANCE' = ATTENDANCE
          /\ (Returns(p, "mark") /\ result'[p] = "PrerequisiteViolation")
               => (REGISTRATIONS[Key(p)] = 0 /\ ATTENDANCE' = ATTENDANCE)
       ]_vars

\* a mark() was refused for a pair without Registration row that has a
\* stale Attendance row
C10_Witness ==
  \E p \in Clients :
    /\ call[p].op = "mark" /\ pc[p] = "idle"
    /\ result[p] = "PrerequisiteViolation"
    /\ REGISTRATIONS[Key(p)] = 0
    /\ Len(ATTENDANCE[Key(p)]) = 1

\* C11: a register() or cancel() by a role other than admin and volunteer
\* returns PermissionDenied at once and leaves the Registration and
\* Attendance rows unchanged, whatever event and student it names; a call
\* by admin or by volunteer is not refused so, at the call or later.
\* (Stated for calls that do not overlap.)
C11_UnprivilegedRefused ==
  [][\A p \in Clients :
       /\ \A role \in Roles :
            ( /\ pc[p] = "idle"
              /\ \/ CallRegister(p, role, call'[p].event_id, call'[p].student_id)
                 \/ CallCancel(p, role, call'[p].event_id, call'[p].student_id) )
              => IF role \in {"admin", "volunteer"}
                   THEN pc'[p] # "idle" /\ result'[p] # "PermissionDenied"
                   ELSE /\ pc'[p] = "idle"
                        /\ result'[p] = "PermissionDenied"
                        /\ REGISTRATIONS' = REGISTRATIONS
                        /\ ATTENDANCE' = ATTENDANCE
       /\ (Returns(p, "register") \/ Returns(p, "cancel"))
            => result'[p] # "PermissionDenied"
    ]_vars

\* a register() and a cancel() were refused for a pair that is registered
\* and has its Attendance row, and both rows are still there
C11_Witness ==
  \E p \in Clients : \E q \in Clients \ {p} :
    /\ call[p].op = "register" /\ result[p] = "PermissionDenied"
    /\ call[q].op = "cancel" /\ result[q] = "PermissionDenied"
    /\ pc[p] = "idle" /\ pc[q] = "idle"
    /\ Key(p) = Key(q)
    /\ REGISTRATIONS[Key(p)] = 1 /\ Len(ATTENDANCE[Key(p)]) = 1

C13_OneTransaction ==
  [][\A p \in Clients :
       /\ (pc[p] # "idle" /\ ~(pc'[p] = "idle" /\ result'[p] = "Success"))
            => (REGISTRATIONS' = REGISTRATIONS /\ ATTENDANCE' = ATTENDANCE)
       /\ Fail(p) => (pc'[p] = "idle" /\ result'[p] = "Unexpected")
       /\ (pc[p] # "idle" /\ pc'[p] = "idle" /\ writes[p] # {}
             /\ ~(pc[p] \in {"r_commit", "c_commit", "m_commit"}
                    /\ result'[p] = "Success"))
            => result'[p] = "Unexpected"
    ]_vars

\* a cancel() of a registered pair with an Attendance row ended with
\* Unexpected and both rows are still there
C13_Witness ==
  \E p \in Clients :
    /\ call[p].op = "cancel" /\ result[p] = "Unexpected" /\ pc[p] = "idle"
    /\ REGISTRATIONS[Key(p)] = 1 /\ Len(ATTENDANCE[Key(p)]) = 1

\* C14: get_event_attendance(e) holds exactly one entry for every student
\* with a Registration row of the event and none for any other student; the
\* entry's status is that of the student's Attendance row, "N" without one.
C14_OneEntryPerRegistration ==
  \A e \in EventArgs :
    LET rows == get_event_attendance(e)
    IN /\ \A s \in StudentArgs :
            Cardinality({i \in DOMAIN rows : rows[i][1] = s})
              = IF REGISTRATIONS[<<e, s>>] > 0 THEN 1 ELSE 0
       /\ \A i \in DOMAIN rows :
            LET att == ATTENDANCE[<<e, rows[i][1]>>]
            IN rows[i][3] = IF att = <<>> THEN "N" ELSE att[1]

\* both students are registered, one has the Attendance row "Y" and the
\* other has none
C14_Witness ==
  /\ REGISTRATIONS[<<1, "S001">>] = 1 /\ REGISTRATIONS[<<1, "S002">>] = 1
  /\ ATTENDANCE[<<1, "S001">>] = <<"Y">> /\ ATTENDANCE[<<1, "S002">>] = <<>>
  /\ Len(get_event_attendance(1)) = 2

\* the students with a Registration row of event e, and those with an
\* Attendance row "Y" of event e
RegisteredFor(e) == {s \in StudentArgs : REGISTRATIONS[<<e, s>>] > 0}
AttendedAt(e) == {s \in StudentArgs : ATTENDANCE[<<e, s>>] = <<"Y">>}

\* C15: get_event_statistics of an existing event without Registration rows
\* returns its dict, with percentage 0, whatever Attendance rows the event
\* has: there is no division by zero.
C15_NoRegistrationsPercentageZero ==
  [][\A p \in Clients :
       ( /\ Returns(p, "statistics")
         /\ call[p].event_id \in DOMAIN EVENTS
         /\ RegisteredFor(call[p].event_id) = {} )
         => /\ result'[p] = "Success"
            /\ stats'[p].registered = 0
            /\ stats'[p].percentage = 0
    ]_vars

\* statistics returned percentage 0 for an event without Registration rows
\* that has Attendance rows "Y"
C15_Witness ==
  \E p \in Clients :
    /\ call[p].op = "statistics" /\ pc[p] = "idle" /\ result[p] = "Success"
    /\ call[p].event_id \in DOMAIN EVENTS
    /\ RegisteredFor(call[p].event_id) = {}
    /\ Cardinality(AttendedAt(call[p].event_id)) = 2
    /\ stats[p] = [registered |-> 0, attended |-> 2, percentage |-> 0]

\* C16 as stated: get_event_statistics returns NotFound exactly when the
\* event does not exist; otherwise registered is the number of Registration
\* rows of the event, attended the number of its Attendance rows "Y", and
\* the percentage is exactly attended / registered * 100 when registered > 0
\* (percentage, in hundredths, times registered is attended times 10000).
C16_PercentageExact ==
  [][\A p \in Clients :
       Returns(p, "statistics") =>
         LET e == call[p].event_id
             reg == Cardinality(RegisteredFor(e))
             att == Cardinality(AttendedAt(e))
         IN IF e \notin DOMAIN EVENTS
              THEN result'[p] = "EventNotFound"
              ELSE /\ result'[p] = "Success"
                   /\ stats'[p].registered = reg
                   /\ stats'[p].attended = att
                   /\ reg > 0 => stats'[p].percentage * reg = att * 10000
    ]_vars

\* C16, amended: as above, the percentage being attended / registered * 100
\* rounded to two decimal places when registered > 0 (it is a whole number
\* of hundredths, at most half a hundredth from the quotient).
C16_PercentageRounded ==
  [][\A p \in Clients :
       Returns(p, "statistics") =>
         LET e == call[p].event_id
             reg == Cardinality(RegisteredFor(e))
             att == Cardinality(AttendedAt(e))
             err == stats'[p].percentage * reg - att * 10000
         IN IF e \notin DOMAIN EVENTS
              THEN result'[p] = "EventNotFound"
              ELSE /\ result'[p] = "Success"
                   /\ stats'[p].registered = reg
                   /\ stats'[p].attended = att
                   /\ reg > 0 => (2 * err <= reg /\ -2 * err <= reg)
    ]_vars

\* three students are registered and two of them attended: 66.67 percent
C16_Witness ==
  \E p \in Clients :
    /\ call[p].op = "statistics" /\ pc[p] = "idle" /\ result[p] = "Success"
    /\ Cardinality(RegisteredFor(call[p].event_id)) = 3
    /\ Cardinality(AttendedAt(call[p].event_id)) = 2
    /\ stats[p] = [registered |-> 3, attended |-> 2, percentage |-> 6667]

\* C17: in every reachable state the status of every Attendance row is "Y"
\* or "N", whatever status argument mark() is called with.
C17_StatusIsYOrN ==
  \A k \in Pairs :
    \A i \in DOMAIN ATTENDANCE[k] : ATTENDANCE[k][i] \in {"Y", "N"}

\* the four administrative operations
AdminOps == {"create_event", "add_student", "update_student", "delete_student"}

\* C18: create_event, add_student, update_student and delete_student called
\* by a role other than admin, volunteer included, return "Administrative
\* privileges required" and leave the EVENTS and STUDENTS rows unchanged;
\* called by admin they are not refused so, and only then can they succeed.
\* (Every step of the administration is a call of its client.)
C18_AdminOnly ==
  /\ [](\A p \in Clients :
          call[p].op \in AdminOps =>
            /\ result[p] = "AdminRequired" <=> call[p].role # "admin"
            /\ result[p] = "Success" => call[p].role = "admin")
  /\ [][\A p \in AdminClients :
          (call'[p].op \in AdminOps /\ call'[p].role # "admin")
            => (EVENTS' = EVENTS /\ STUDENTS' = STUDENTS)
       ]_vars

\* a delete_student of an existing student by a volunteer was refused for
\* lack of administrative privileges, and the student's row is still there
C18_Witness ==
  \E p \in Clients :
    /\ call[p].op = "delete_student" /\ call[p].role = "volunteer"
    /\ result[p] = "AdminRequired"
    /\ call[p].student_id \in DOMAIN STUDENTS

\* a total_slots argument that is zero, negative or no number
NoPositiveNumber(x) ==
  \/ x.type = "NoneType"
  \/ x.type \in {"int", "float"} /\ x.val <= 0
  \/ x.type = "str" /\ x.text \in {"", "abc", "0", "-1"}

\* C19: every row of EVENTS has a positive integer as total_slots; a
\* create_event whose total_slots argument is zero, negative or no number
\* returns an error and creates no event.
C19_PositiveCapacity ==
  /\ [](\A e \in DOMAIN EVENTS : EVENTS[e].total_slots \in Nat \ {0})
  /\ [](\A p \in Clients :
          (call[p].op = "create_event" /\ NoPositiveNumber(call[p].total_slots))
            => result[p] \in {"AdminRequired", "FieldsRequired",
                              "SlotsNotANumber", "SlotsNotPositive"})
  /\ [][\A p \in AdminClients :
          ( /\ call'[p].op = "create_event"
            /\ NoPositiveNumber(call'[p].total_slots) )
            => EVENTS' = EVENTS
       ]_vars

\* an event was created, and a later create_event by an admin with the
\* text "0" as total_slots was refused
C19_Witness ==
  \E p \in Clients :
    /\ call[p].op = "create_event" /\ call[p].role = "admin"
    /\ call[p].total_slots = [type |-> "str", text |-> "0", val |-> 0]
    /\ result[p] = "SlotsNotPositive"
    /\ Cardinality(DOMAIN EVENTS) = 2
    /\ \A e \in DOMAIN EVENTS : EVENTS[e].total_slots > 0

\* C20: get_registered_students(e), which takes no role, holds exactly one
\* row for every student with a Registration row of the event and none for
\* any other student, in ascending order of the students' names.
C20_RegisteredInNameOrder ==
  \A e \in EventArgs :
    LET rows == get_registered_students(e)
    IN /\ \A s \in StudentArgs :
            Cardinality({i \in DOMAIN rows : rows[i][1] = s})
              = IF REGISTRATIONS[<<e, s>>] > 0 THEN 1 ELSE 0
       /\ \A i \in DOMAIN rows : rows[i][2] = STUDENTS[rows[i][1]].name
       /\ \A i, j \in DOMAIN rows : i < j => rows[i][2] <= rows[j][2]

\* both students are registered: S002, whose name sorts first, is listed
\* before S001
C20_Witness ==
  /\ REGISTRATIONS[<<1, "S001">>] = 1 /\ REGISTRATIONS[<<1, "S002">>] = 1
  /\ get_registered_students(1)
       = << <<"S002", STUDENTS["S002"].name>>,
            <<"S001", STUDENTS["S001"].name>> >>
  /\ STUDENTS["S002"].name < STUDENTS["S001"].name


\* C21: once sanitized, a text value that started with '=', '+', '-' or '@'
\* is a single quote followed by the original value and every other value
\* is the original value; no sanitized text value starts with one of the
\* four characters; a second pass changes nothing.
C21_SanitizerNeutralizes ==
  /\ cell.passes = 1 =>
       /\ cell.previous = cell.value
       /\ IF cell.value.type = "str" /\ Len(cell.value.chars) > 0
             /\ cell.value.chars[1] \in {"=", "+", "-", "@"}
          THEN /\ cell.sanitized.type = "str"
               /\ Len(cell.sanitized.chars) = Len(cell.value.chars) + 1
               /\ cell.sanitized.chars[1] = "'"
               /\ \A i \in 1..Len(cell.value.chars) :
                    cell.sanitized.chars[i + 1] = cell.value.chars[i]
          ELSE cell.sanitized = cell.value
  /\ (cell.passes >= 1 /\ cell.sanitized.type = "str"
        /\ Len(cell.sanitized.chars) > 0) =>
       cell.sanitized.chars[1] \notin {"=", "+", "-", "@"}
  /\ cell.passes >= 2 => cell.sanitized = cell.previous

\* the value "@a'" has gone through the sanitizer twice
C21_Witness ==
  /\ cell.passes = 2
  /\ cell.value = [type |-> "str", chars |-> <<"@", "a", "'">>]
  /\ cell.sanitized.chars = <<"'", "@", "a", "'">>


\* the statements of register() after its SELECT ... FOR UPDATE
HoldsEventRow(p) ==
  pc[p] \in {"r_student", "r_dup", "r_count", "r_insert", "r_commit"}

\* C22: a register() holds the lock of its event row from its locked read
\* of the event until it commits or rolls back, and holds none afterwards;
\* so no two register() calls on one event are past their locked read at
\* the same time: while one is between its read of the registration count
\* and its commit, no other one on that event reads the count or inserts.
C22_EventRowLocked ==
  /\ \A p \in Clients :
       /\ HoldsEventRow(p) => event_lock[call[p].event_id] = p
       /\ ~HoldsEventRow(p) => \A e \in EventArgs : event_lock[e] # p
  /\ \A p \in Clients : \A q \in Clients \ {p} :
       (HoldsEventRow(p) /\ HoldsEventRow(q)) =>
         call[p].event_id # call[q].event_id

\* one register() has read the count and not yet committed, another one on
\* the same event waits at its locked read
C22_Witness ==
  \E p \in Clients : \E q \in Clients \ {p} :
    /\ pc[p] \in {"r_insert", "r_commit"}
    /\ pc[q] = "r_lock"
    /\ call[q].event_id = call[p].event_id
    /\ ForUpdateBlocked(q, call[q].event_id)


\* the first check of register() that fails on the committed rows, in the
\* order of the claim, for a privileged role
FirstFailingCheck(e, s) ==
  IF e \notin DOMAIN EVENTS THEN "EventNotFound"
  ELSE IF s \notin DOMAIN STUDENTS THEN "StudentNotFound"
  ELSE IF REGISTRATIONS[<<e, s>>] > 0 THEN "Info"
  ELSE IF CountRegistrations(e) >= EVENTS[e].total_slots
    THEN "CapacityExceeded"
  ELSE "Success"

\* C23: register() returns the outcome of the first failing check in the
\* order role, event exists, student exists, pair not yet registered, count
\* below capacity: a refused role is PermissionDenied whatever the other
\* checks would give, a missing event is reported before a missing student
\* and an already registered student on a full event gets Info.
\* (Stated for calls that do not overlap.)
C23_FirstFailingCheck ==
  [][\A p \in Clients :
       /\ \A role \in Roles :
            ( /\ pc[p] = "idle"
              /\ CallRegister(p, role, call'[p].event_id,
                              call'[p].student_id) )
              => IF role \in {"admin", "volunteer"}
                   THEN pc'[p] # "idle"
                   ELSE pc'[p] = "idle" /\ result'[p] = "PermissionDenied"
       /\ Returns(p, "register") =>
            result'[p] = FirstFailingCheck(call[p].event_id,
                                           call[p].student_id)
    ]_vars

\* a register() of the already registered student of the full event has
\* returned Info, and one for a missing event and a missing student has
\* returned the event's NotFound
C23_Witness ==
  \E p \in Clients : \E q \in Clients \ {p} :
    /\ pc[p] = "idle" /\ call[p].op = "register" /\ result[p] = "Info"
    /\ REGISTRATIONS[Key(p)] = 1
    /\ CountRegistrations(1) = EVENTS[1].total_slots
    /\ pc[q] = "idle" /\ call[q].op = "register"
    /\ Key(q) = <<99, "S999">> /\ result[q] = "EventNotFound"


\* C24: a register() that reaches its capacity check (privileged role,
\* existing event, existing student not yet registered) goes on to insert
\* when the event's registration count is below its capacity and returns
\* CapacityExceeded only when the count is at least the capacity; once past
\* the check it returns Success and adds exactly one Registration row, so
\* the last free slot is given and never more than the capacity.
C24_LastSlotGiven ==
  [][\A p \in Clients :
       /\ (pc[p] = "r_count" /\ pc'[p] # "r_count") =>
            IF CountRegistrations(call[p].event_id)
                 < EVENTS[call[p].event_id].total_slots
              THEN pc'[p] = "r_insert"
              ELSE pc'[p] = "idle" /\ result'[p] = "CapacityExceeded"
       /\ (Returns(p, "register") /\ result'[p] = "CapacityExceeded") =>
            /\ pc[p] = "r_count"
            /\ CountRegistrations(call[p].event_id)
                 >= EVENTS[call[p].event_id].total_slots
       /\ (Returns(p, "register") /\ pc[p] \in {"r_insert", "r_commit"}) =>
            /\ result'[p] = "Success"
            /\ REGISTRATIONS' =
                 [REGISTRATIONS EXCEPT ![Key(p)] = @ + 1]
            /\ CountRegistrations(call[p].event_id)
                 < EVENTS[call[p].event_id].total_slots
    ]_vars

\* the register() that took the last of the two slots has returned Success
\* and the event holds exactly as many registrations as it has slots
C24_Witness ==
  \E p \in Clients :
    /\ pc[p] = "idle" /\ call[p].op = "register" /\ result[p] = "Success"
    /\ REGISTRATIONS[Key(p)] = 1
    /\ EVENTS[1].total_slots = 2
    /\ CountRegistrations(1) = 2
    /\ \E q \in Clients \ {p} :
         /\ pc[q] = "idle" /\ call[q].op = "register"
         /\ result[q] = "Success" /\ Key(q) # Key(p)


ReadOps == {"list_registered", "list_for_event", "statistics"}

\* C25: no step of register(), cancel() or mark() creates, changes or
\* deletes an Event or a Student, and every step of list_registered(),
\* list_for_event() and statistics() leaves all tables as they are.
C25_EventsAndStudentsUntouched ==
  [][/\ EVENTS' = EVENTS
     /\ STUDENTS' = STUDENTS
     /\ \A p \in Clients :
          ( /\ call'[p].op \in ReadOps
            /\ <<pc[p], call[p], result[p], listing[p], stats[p]>>
                 # <<pc'[p], call'[p], result'[p], listing'[p], stats'[p]>> )
            => UNCHANGED <<REGISTRATIONS, ATTENDANCE, current_date>>
    ]_vars

\* list_for_event() has returned the registered student with the status
\* "N" of a missing Attendance row, which is still missing, after the
\* register() of the other client
C25_Witness ==
  \E p \in Clients : \E q \in Clients \ {p} :
    /\ pc[p] = "idle" /\ call[p].op = "list_for_event"
    /\ Len(listing[p]) = 1 /\ listing[p][1][3] = "N"
    /\ ATTENDANCE[<<1, listing[p][1][1]>>] = <<>>
    /\ REGISTRATIONS[<<1, listing[p][1][1]>>] = 1
    /\ pc[q] = "idle" /\ call[q].op = "register" /\ result[q] = "Success"


\* C26: a step of register(), cancel() or mark() for the pair (e, s) leaves
\* the Registration and Attendance rows of every other pair as they are; no
\* step of register() changes an Attendance row and no step of mark()
\* changes a Registration row.
C26_OtherPairsUntouched ==
  [][\A p \in Clients :
       (pc'[p] # pc[p] \/ call'[p] # call[p] \/ result'[p] # result[p]) =>
         /\ \A k \in Pairs \ {<<call'[p].event_id, call'[p].student_id>>} :
              /\ REGISTRATIONS'[k] = REGISTRATIONS[k]
              /\ ATTENDANCE'[k] = ATTENDANCE[k]
         /\ call'[p].op = "register" => ATTENDANCE' = ATTENDANCE
         /\ call'[p].op = "mark" => REGISTRATIONS' = REGISTRATIONS
    ]_vars

\* a cancel() for one student has removed that student's rows while the
\* other student of the event keeps the Registration and the Attendance row
C26_Witness ==
  \E p \in Clients : \E k \in Pairs :
    /\ pc[p] = "idle" /\ call[p].op = "cancel" /\ result[p] = "Success"
    /\ k[1] = call[p].event_id /\ k[2] # call[p].student_id
    /\ REGISTRATIONS[Key(p)] = 0 /\ ATTENDANCE[Key(p)] = <<>>
    /\ REGISTRATIONS[k] = 1 /\ ATTENDANCE[k] = <<"Y">>
    /\ \E q \in Clients \ {p} : call[q].op = "mark" /\ Key(q) = Key(p)
                                  /\ result[q] = "Success"


\* C27: under fair scheduling every register(), cancel() and mark() call
\* that has started returns: no call waits forever for the lock of an event
\* row, an Attendance row or a Registration row held by another call, since
\* every return gives them up, and no interleaving deadlocks.
C27_EveryCallReturns ==
  \A p \in Clients : (pc[p] # "idle") ~> (pc[p] = "idle")

\* a register() waits for the row lock of the event while the call holding
\* it is about to return Info for its already registered student
C27_Witness ==
  \E p \in Clients : \E q \in Clients \ {p} :
    /\ pc[q] = "r_lock" /\ ForUpdateBlocked(q, call[q].event_id)
    /\ pc[p] = "r_dup" /\ REGISTRATIONS[Key(p)] > 0
    /\ event_lock[call[q].event_id] = p


\* C28: after a cancel() for a registered student of a full event has
\* returned Success, the register() that follows it, by a privileged role
\* for an existing student who is not registered, returns Success and the
\* student holds the freed slot.
C28_CancelFreesSlot ==
  \A q \in Clients \ Writers :
    (call[q].op = "register" /\ pc[q] = "idle" /\ result[q] # "none") =>
      /\ result[q] = "Success"
      /\ REGISTRATIONS[Key(q)] = 1
      /\ CountRegistrations(1) <= EVENTS[1].total_slots

\* the event of two slots was full, a student's registration was cancelled
\* and the student registered next has got the slot: the event is full again
C28_Witness ==
  \E q \in Clients \ Writers : \E p \in Writers :
    /\ call[q].op = "register" /\ pc[q] = "idle" /\ result[q] = "Success"
    /\ call[p].op = "cancel" /\ pc[p] = "idle" /\ result[p] = "Success"
    /\ EVENTS[1].total_slots = 2
    /\ CountRegistrations(1) = 2


\* C29: when a register() has returned Success, get_event_attendance
\* reports the newly registered student with the status "N": no Attendance
\* status recorded for an earlier registration of the pair, cancelled since,
\* is carried over, in any interleaving of register(), cancel() and mark().
C29_NewRegistrationUnmarked ==
  [][\A p \in Clients :
       (Returns(p, "register") /\ result'[p] = "Success") =>
         LET shown == ListedStatuses(call[p].event_id, call[p].student_id)'
         IN /\ DOMAIN shown # {}
            /\ \A i \in DOMAIN shown : shown[i] = "N"
    ]_vars


\* the number of entries with status "Y" that get_event_attendance(e) returns
ListedAttended(e) ==
  LET listed == get_event_attendance(e)
  IN Cardinality({i \in 1..Len(listed) : listed[i][3] = "Y"})

\* C30: when get_event_statistics returns its counts, attended is at most
\* registered, the percentage lies between 0 and 100, and attended is the
\* number of entries with status "Y" that get_event_attendance returns in
\* the state of the return, also while register(), cancel() and mark() run.
C30_StatisticsConsistent ==
  [][\A p \in Clients :
       (Returns(p, "statistics") /\ result'[p] = "Success") =>
         /\ stats'[p].attended <= stats'[p].registered
         /\ stats'[p].percentage >= 0 /\ stats'[p].percentage <= 10000
         /\ stats'[p].attended = ListedAttended(call[p].event_id)'
    ]_vars

====
